---- MODULE Spec2Model ----
(***************************************************************************)
(* A model of neodux's dispatch engine (Store, src/unnamed/part_000) and   *)
(* of the reducer the ActionsRegistry compiles (src/lib/actions.ts).       *)
(*                                                                         *)
(* JavaScript runs one synchronous block at a time.  pc = "idle" means no  *)
(* code of the store is on the stack; the other values of pc are the       *)
(* positions inside the executor of Store.dispatch (lines 136-166).        *)
(* Continuations of awaits (the leaf writes of the compiled reducer and    *)
(* the settling of the promise it returns) run only while pc = "idle".     *)
(*                                                                         *)
(* A store is built around one of two reducers:                            *)
(*   mode = "combined": combineActionHandlers(...), which is synchronous   *)
(*                      and returns the state object;                      *)
(*   mode = "registry": ActionsRegistry.createActionHandler(), an async    *)
(*                      function, which returns a promise.                 *)
(* Store.init and Store.dispatch assign whatever the reducer returns to    *)
(* _state without awaiting it.                                             *)
(***************************************************************************)
EXTENDS Integers, Sequences, FiniteSets, TLC

\* Bounds of the model.
MaxSubmit == 3
MaxSubmitMerged == 1

\* JavaScript's undefined, as a value no leaf and no payload takes.
Undef == -1

\* The payload callers submit; user code re-dispatches with another one.
Payloads == {5}
NoAction == [type |-> "none", payload |-> Undef]
NoCall == [name |-> "", type |-> "", error |-> "none"]
NoReCall == [name |-> "", type |-> "", payload |-> Undef]
Actions == {[type |-> "INC", payload |-> p] : p \in Payloads}
             \cup {[type |-> "BAD", payload |-> Undef]}

\* What user code running inside a handler or a side effect may pass to the
\* dispatch function it is given.
ReActions == {[type |-> "INC", payload |-> 3]}

(***************************************************************************)
(* The registry                                                            *)
(***************************************************************************)

\* The handler declarations, in registration order.  "increment" and
\* "double" share the selector "counter" and the type tag "INC".
Registrations(withDouble) ==
    << [name |-> "increment", type |-> "INC", selector |-> "counter", fn |-> "add"],
       [name |-> "fail", type |-> "BAD", selector |-> "flag", fn |-> "flaky"] >>
    \o (IF withDouble
        THEN << [name |-> "double", type |-> "INC", selector |-> "counter", fn |-> "dbl"] >>
        ELSE << >>)

\* The user-supplied handler functions ({state, payload}) => newState.
\*   add:   ({state = 0, payload}) => payload === undefined ? state : state + payload
\*   dbl:   ({state = 0, payload}) => payload === undefined ? state : 2 * state
\*   flaky: ({state}) => state === undefined ? 0 : state + 1   (may also throw)
\*   keep:  ({state = 0}) => state
Handler(fn, s, payload) ==
    LET s0 == IF s = Undef THEN 0 ELSE s
    IN CASE fn = "add" -> IF payload = Undef THEN s0 ELSE s0 + payload
         [] fn = "dbl" -> IF payload = Undef THEN s0 ELSE 2 * s0
         [] fn = "keep" -> s0
         [] OTHER -> IF s = Undef THEN 0 ELSE s + 1

\* Whether the user function may throw, and may call dispatch, when invoked.
MayThrow(fn) == fn = "flaky"
MayDispatch(fn) == fn = "flaky"

\* The adapter around a declaration (actions.ts 188-213): whether the user
\* function is invoked, and with which state and payload.
AdapterShape(type, s, action) ==
    IF s = Undef
    THEN [invoke |-> TRUE, state |-> Undef, payload |-> Undef]
    ELSE IF action = NoAction
    THEN [invoke |-> FALSE, state |-> s, payload |-> Undef]
    ELSE IF action.type = type
    THEN [invoke |-> TRUE, state |-> s, payload |-> action.payload]
    ELSE [invoke |-> FALSE, state |-> s, payload |-> Undef]

\* compose is itself an async function: what it returns is a promise, not
\* a function.
Compose(f, g) == [kind |-> "promise", reg |-> 0]

\* The selectors in order of first registration: Object.keys(actionTree.root).
RECURSIVE RootKeysOf(_, _)
RootKeysOf(regs, n) ==
    IF n = 0 THEN << >>
    ELSE LET ks == RootKeysOf(regs, n - 1)
             sel == regs[n].selector
         IN IF \E i \in 1..Len(ks) : ks[i] = sel THEN ks ELSE Append(ks, sel)

RootKeys(regs) == RootKeysOf(regs, Len(regs))

\* actionTree.root after the first n declarations (actions.ts 227-254): the
\* first handler at a selector is stored as it is, a later one stores
\* compose(ah.handler, root[ah.selector]).
RECURSIVE ActionTreeOf(_, _)
ActionTreeOf(regs, n) ==
    IF n = 0 THEN [k \in {} |-> 0]
    ELSE LET acc == ActionTreeOf(regs, n - 1)
             sel == regs[n].selector
             own == [kind |-> "handler", reg |-> n]
         IN IF sel \notin DOMAIN acc
            THEN [k \in DOMAIN acc \cup {sel} |-> IF k = sel THEN own ELSE acc[k]]
            ELSE [acc EXCEPT ![sel] = Compose(own, Undef)]

ActionTree(regs) == ActionTreeOf(regs, Len(regs))

\* registry.sideEffect(s) (actions.ts 156-162): append to the list of the tag.
SideEffectAdd(table, s) ==
    IF s.actionType \in DOMAIN table
    THEN [table EXCEPT ![s.actionType] = Append(@, s.id)]
    ELSE [t \in DOMAIN table \cup {s.actionType} |->
            IF t = s.actionType THEN << s.id >> ELSE table[t]]

\* Two side effects registered for "INC", s1 before s2.
SideEffectHandlers ==
    SideEffectAdd(SideEffectAdd([t \in {} |-> << >>],
                                [actionType |-> "INC", id |-> "s1"]),
                  [actionType |-> "INC", id |-> "s2"])

\* this._sideEffectHandlers[action.type], or none.
EffectsFor(type) ==
    IF type \in DOMAIN SideEffectHandlers THEN SideEffectHandlers[type] ELSE << >>

\* The name table given to the Store's constructor.
ActionNameToType ==
    [n \in {"increment", "multi"} |->
        IF n = "increment" THEN << "INC" >> ELSE << "INC", "BAD" >>]

\* A new ActionsRegistry (actions.ts 88-91).
EmptyRegistry ==
    [names |-> [n \in {} |-> ""], types |-> {}, handlers |-> << >>,
     effects |-> [t \in {} |-> << >>]]

NoRegCall == [op |-> "none", name |-> "", known |-> FALSE, error |-> "none"]

\* A state object, as the values at its paths: a number, Mapping for a
\* nested object, Undef for a path that is not there.
Mapping == -2
Paths == {"counter", "a", "a.b", "a.b.c", "a.x"}
EmptyTree == [q \in Paths |-> Undef]

\* No store has been created.
NoStore ==
    [status |-> "none", handlers |-> << >>, actions |-> [n \in {} |-> ""],
     effectsAtCreate |-> [t \in {} |-> << >>], initial |-> EmptyTree,
     state0 |-> EmptyTree, rejected |-> FALSE, holds |-> "nothing",
     dispatched |-> 0, last |-> [type |-> "", written |-> EmptyTree,
                                 effects |-> << >>]]

(***************************************************************************)
(* The store                                                               *)
(***************************************************************************)

VARIABLES
    mode,           \* "combined" | "registry": the reducer the store was given
    merged,         \* whether "double" was registered (registry mode only)
    rootObj,        \* the one plain state object: leaf key -> value
    promises,       \* the promises the async reducer returned, oldest first
    storeState,     \* _state: 0 is rootObj itself, k > 0 is promises[k]
    isDispatching,  \* _isDispatching
    dispatchQueue,  \* _dispatchQueue: the queued submissions (their ids)
    pc,             \* position of the running synchronous block, or "idle"
    cur,            \* the submission the executor is serving (0: none)
    newP,           \* the promise the running reducer call will return
    leafIdx,        \* next root key the reducer visits
    effIdx,         \* next side effect of the forEach
    subs,           \* history: every submission, in submission order
    future,         \* history: the fate of each submission's dispatch future
    log,            \* history: the events of the run, in order
    lastCall,       \* history: the by-name call this step made, if any
    curAction,      \* the action parameter of the dispatch call being served
    asyncEffects,   \* whether the side effects are async functions
    effectWork,     \* the async work side effects started, not yet finished
    registry,       \* the ActionsRegistry's four tables
    regCall,        \* history: the registry call this step made, if any
    store           \* what createStore made of the registry, if it ran

vars == << mode, merged, rootObj, promises, storeState, isDispatching,
           dispatchQueue, pc, cur, newP, leafIdx, effIdx, subs, future, log,
           lastCall, curAction, asyncEffects, effectWork, registry, regCall,
           store >>

\* What no step of Store.dispatch touches.
registryVars == << registry, regCall, store >>

\* The submissions a run makes: fewer on a store whose reducer has a merged
\* leaf, where every reducer call fails alike.
SubmitBound == IF merged THEN MaxSubmitMerged ELSE MaxSubmit

Regs == Registrations(merged)
Keys == RootKeys(Regs)
KeySet == {Keys[i] : i \in 1..Len(Keys)}
Tree == ActionTree(Regs)
EmptyObj == [k \in {"counter", "flag"} |-> Undef]

\* state[key] for the object the reducer was handed: the plain state object,
\* or a promise object and the properties written onto it.
LeafRead(base, key) ==
    IF base = 0 THEN rootObj[key] ELSE promises[base].props[key]

\* What an observer is handed: the reference and the object's own
\* properties at that moment.
Snap(ref, obj, proms) ==
    [ref |-> ref, obj |-> IF ref = 0 THEN obj ELSE proms[ref].props]

NoSnap == [ref |-> 0, obj |-> EmptyObj]

Event(e, id, eff, snap) == [e |-> e, id |-> id, eff |-> eff, snap |-> snap]

\* The promise an invocation of the async reducer returns, before any of
\* its leaves has been called.
FreshPromise(sub, base) ==
    [sub |-> sub, base |-> base, status |-> "pending", props |-> EmptyObj,
     tasks |-> {}]

\* The leaf call of one key (actions.ts 277-285; part_000 200-202): the
\* outcomes the call can have.  The handlers given to combineActionHandlers
\* are taken to follow the adapter's convention, synchronously.  throws: the call fails; val: what it
\* returns; re: what user code passed to dispatch meanwhile (NoAction: no
\* call); user: whether a user function ran.
LeafOutcomes(key, s, action) ==
    LET leaf == Tree[key]
    IN IF leaf.kind # "handler"
       THEN {[throws |-> TRUE, val |-> Undef, re |-> NoAction, user |-> FALSE]}
       ELSE LET reg == Regs[leaf.reg]
                shape == AdapterShape(reg.type, s, action)
            IN IF ~shape.invoke
               THEN {[throws |-> FALSE, val |-> s, re |-> NoAction, user |-> FALSE]}
               ELSE {[throws |-> t,
                      val |-> IF t THEN Undef
                              ELSE Handler(reg.fn, shape.state, shape.payload),
                      re |-> r, user |-> TRUE] :
                        t \in (IF MayThrow(reg.fn) THEN BOOLEAN ELSE {FALSE}),
                        r \in (IF MayDispatch(reg.fn)
                               THEN ReActions \cup {NoAction} ELSE {NoAction})}

\* Store.init(undefined) (part_000 53-60) has run: the reducer was called
\* with state = {} and no action, no initial-value computation threw, and
\* what it returned was assigned to _state.  In registry mode the leaves
\* have been called and their continuations are still to run.
InitTasks ==
    {[key |-> k,
      throws |-> Tree[k].kind # "handler",
      val |-> IF Tree[k].kind # "handler" THEN Undef
              ELSE Handler(Regs[Tree[k].reg].fn, Undef, Undef)] : k \in KeySet}

StoreInit ==
    /\ mode \in {"combined", "registry"}
    /\ merged \in BOOLEAN
    /\ merged => mode = "registry"
    /\ IF mode = "combined"
       THEN /\ rootObj = [k \in DOMAIN EmptyObj |->
                            IF k \in KeySet
                            THEN Handler(Regs[Tree[k].reg].fn, Undef, Undef)
                            ELSE Undef]
            /\ promises = << >>
            /\ storeState = 0
       ELSE /\ rootObj = EmptyObj
            /\ promises = << [FreshPromise(0, 0) EXCEPT !.tasks = InitTasks] >>
            /\ storeState = 1
    /\ isDispatching = FALSE
    /\ dispatchQueue = << >>
    /\ pc = "idle"
    /\ cur = 0
    /\ newP = 0
    /\ leafIdx = 1
    /\ effIdx = 1
    /\ subs = << >>
    /\ future = << >>
    /\ log = << Event("publish", 0, "", Snap(storeState, rootObj, promises)) >>
    /\ lastCall = NoCall
    /\ curAction = NoAction
    /\ effectWork = {}
    /\ registry = EmptyRegistry
    /\ regCall = NoRegCall
    /\ store = NoStore

\* The side effects of the store are plain functions.
Init == StoreInit /\ asyncEffects = FALSE

(***************************************************************************)
(* Store.dispatch                                                          *)
(***************************************************************************)

\* Mutant of Enqueue: the entry is put at the front of the queue.
EnqueueFront(q, id) == << id >> \o q

\* this._dispatchQueue.push(dispatchFn) (part_000 132).
Enqueue(q, id) == Append(q, id)

\* const next = this._dispatchQueue[0] (part_000 162).
NextOf(q) == Head(q)

\* Mutant of RestOf: the flush empties the queue.
RestOfNone(q) == << >>

\* this._dispatchQueue = this._dispatchQueue.slice(1) (part_000 163).
RestOf(q) == Tail(q)

\* Mutant of ValidActionType: the type is not looked up.
ValidActionTypeAny(types, type) == TRUE

\* validActionTypes[actionType] (part_000 30-39).
ValidActionType(types, type) == \E i \in 1..Len(types) : types[i] = type

\* dispatch(name, ...) (part_000 116-122) through this._actions[name]
\* (part_000 25-49): the error thrown, or the action handed on to dispatch.
\* A single-type name is called as dispatch(name, payload), a multi-type
\* name as dispatch(name, type, payload).
ResolveName(name, type, payload) ==
    IF name \notin DOMAIN ActionNameToType
    THEN [error |-> "unknown", action |-> NoAction]
    ELSE LET types == ActionNameToType[name]
         IN IF Len(types) > 1
            THEN IF ~ValidActionType(types, type)
                 THEN [error |-> "invalid", action |-> NoAction]
                 ELSE [error |-> "none",
                       action |-> [type |-> type, payload |-> payload]]
            ELSE [error |-> "none",
                  action |-> [type |-> types[1], payload |-> payload]]

\* The by-name calls callers make.
NameCalls ==
    { [name |-> "increment", type |-> "", payload |-> 5],
      [name |-> "multi", type |-> "INC", payload |-> 5],
      [name |-> "multi", type |-> "BAD", payload |-> Undef],
      [name |-> "multi", type |-> "XXX", payload |-> 5],
      [name |-> "nope", type |-> "", payload |-> 5] }

\* The executor starts serving submission id (part_000 136-144, up to the
\* call of the reducer): in registry mode the call creates the promise it
\* will return, whose state argument is the current _state.
Begin(id, a, proms, lg) ==
    /\ log' = Append(lg, Event("begin", id, "", NoSnap))
    /\ isDispatching' = TRUE
    /\ cur' = id
    /\ curAction' = a
    /\ pc' = "reduce"
    /\ leafIdx' = 1
    /\ IF mode = "registry"
       THEN /\ promises' = Append(proms, FreshPromise(id, storeState))
            /\ newP' = Len(proms) + 1
       ELSE /\ promises' = proms
            /\ newP' = 0

\* dispatch(action) with an action object (part_000 125-137): queued while
\* _isDispatching, served at once otherwise.
DispatchAction(a) ==
    /\ pc = "idle"
    /\ Len(subs) < SubmitBound
    /\ LET id == Len(subs) + 1
           lg == Append(log, Event("submit", id, "", NoSnap))
       IN /\ subs' = Append(subs, [action |-> a, parent |-> 0, call |-> NoReCall])
          /\ future' = Append(future, "pending")
          /\ IF isDispatching
             THEN /\ dispatchQueue' = Enqueue(dispatchQueue, id)
                  /\ log' = lg
                  /\ UNCHANGED << isDispatching, cur, pc, leafIdx, promises, newP,
                                  curAction >>
             ELSE /\ Begin(id, a, promises, lg)
                  /\ UNCHANGED dispatchQueue
    /\ UNCHANGED << mode, merged, rootObj, storeState, effIdx >>
    /\ UNCHANGED << asyncEffects, effectWork, registryVars >>

DispatchObject ==
    /\ \E a \in Actions : DispatchAction(a)
    /\ lastCall' = NoCall

\* dispatch(name, ...) with a name that resolves.
DispatchByName ==
    \E c \in NameCalls :
        LET r == ResolveName(c.name, c.type, c.payload)
        IN /\ r.error = "none"
           /\ DispatchAction(r.action)
           /\ lastCall' = [name |-> c.name, type |-> c.type, error |-> r.error]

\* dispatch(name, ...) that throws (part_000 40, 121): the returned future
\* is rejected.
DispatchBadName ==
    \E c \in NameCalls :
        LET r == ResolveName(c.name, c.type, c.payload)
        IN /\ pc = "idle"
           /\ r.error # "none"
           /\ lastCall' = [name |-> c.name, type |-> c.type, error |-> r.error]
           /\ UNCHANGED << mode, merged, rootObj, promises, storeState,
                           isDispatching, dispatchQueue, pc, cur, newP,
                           leafIdx, effIdx, subs, future, log, curAction,
                           asyncEffects, effectWork, registryVars >>

\* User code running for submission `parent` calls dispatch(a).  Between
\* line 137 and line 157 _isDispatching is true, so the call takes the
\* branch of lines 126-134.  Gives the new subs, future, queue and log.
Reenter(a, parent, lg) ==
    IF a = NoAction \/ Len(subs) >= SubmitBound
    THEN [subs |-> subs, future |-> future, queue |-> dispatchQueue, log |-> lg]
    ELSE LET id == Len(subs) + 1
         IN [subs |-> Append(subs, [action |-> a, parent |-> parent,
                                    call |-> NoReCall]),
             future |-> Append(future, "pending"),
             queue |-> Enqueue(dispatchQueue, id),
             log |-> Append(lg, Event("submit", id, "", NoSnap))]

\* The reducer visits one root key.
\* combined (part_000 200-202): state[k] = actionHandlers[k](...), at once;
\*   a throw unwinds the executor, whose promise nobody looks at.
\* registry (actions.ts 277-285): the leaf is called now, state[key] is
\*   assigned when the awaited result arrives.
ReduceLeaf ==
    /\ pc = "reduce"
    /\ leafIdx <= Len(Keys)
    /\ LET key == Keys[leafIdx]
           base == IF mode = "registry" THEN promises[newP].base ELSE storeState
       IN \E o \in LeafOutcomes(key, LeafRead(base, key), curAction) :
            LET lg == IF o.user
                      THEN Append(log, Event("handler", cur, key, NoSnap))
                      ELSE log
                r == Reenter(o.re, cur, lg)
                lg2 == IF o.user /\ o.throws
                       THEN Append(r.log, Event("hthrow", cur, key, NoSnap))
                       ELSE r.log
            IN /\ subs' = r.subs
               /\ future' = r.future
               /\ dispatchQueue' = r.queue
               /\ log' = lg2
               /\ IF mode = "registry"
                  THEN /\ promises' = [promises EXCEPT ![newP].tasks =
                              @ \cup {[key |-> key, throws |-> o.throws,
                                       val |-> o.val]}]
                       /\ leafIdx' = leafIdx + 1
                       /\ UNCHANGED << rootObj, pc, cur, curAction >>
                  ELSE /\ UNCHANGED promises
                       /\ IF o.throws
                          THEN /\ pc' = "idle"
                               /\ cur' = 0
                               /\ curAction' = NoAction
                               /\ UNCHANGED << rootObj, leafIdx >>
                          ELSE /\ rootObj' = [rootObj EXCEPT ![key] = o.val]
                               /\ leafIdx' = leafIdx + 1
                               /\ UNCHANGED << pc, cur, curAction >>
    /\ lastCall' = NoCall
    /\ UNCHANGED << mode, merged, storeState, isDispatching, newP, effIdx >>
    /\ UNCHANGED << asyncEffects, effectWork, registryVars >>

\* this._state = <what the reducer returned> (part_000 140-144, 63-65):
\* the value is handed to the observable, which publishes it.
Publish ==
    /\ pc = "reduce"
    /\ leafIdx > Len(Keys)
    /\ storeState' = (IF mode = "registry" THEN newP ELSE storeState)
    /\ log' = Append(log, Event("publish", cur, "",
                                Snap(storeState', rootObj, promises)))
    /\ pc' = "effects"
    /\ effIdx' = 1
    /\ lastCall' = NoCall
    /\ UNCHANGED << mode, merged, rootObj, promises, isDispatching,
                    dispatchQueue, cur, newP, leafIdx, subs, future >>
    /\ UNCHANGED << curAction, asyncEffects, effectWork, registryVars >>

\* What the side effects registered for "INC" pass to the dispatch function
\* they are handed (part_000 151), when they call it: s1 dispatches by a
\* single-type name, s2 by a multi-type name.
EffectCall(eff) ==
    IF eff = "s1"
    THEN [name |-> "increment", type |-> "", payload |-> 3]
    ELSE [name |-> "multi", type |-> "INC", payload |-> 3]

\* A side effect running for submission `parent` calls dispatch by name
\* (part_000 116-119, 25-49, then 126-134): the name is resolved and the
\* action object it stands for is queued.
ReenterByName(c, parent, lg) ==
    LET r == ResolveName(c.name, c.type, c.payload)
        q == Reenter(r.action, parent, lg)
    IN IF Len(q.subs) = Len(subs)
       THEN q
       ELSE [q EXCEPT !.subs[Len(q.subs)].call = c]

\* Mutant of AwaitedWork: the executor awaits what the callbacks returned.
AwaitedWorkAll(work) == work

\* The work of the side effects that the executor waits for before line
\* 157: none, forEach drops what the callbacks return (part_000 148-154).
AwaitedWork(work) == {}

\* The async work the side effects of submission id started.
WorkOf(id) == {w \in effectWork : w.id = id}

\* One callback of the forEach over this._sideEffectHandlers[action.type]
\* (part_000 147-155).  The callback may call dispatch.  A plain function
\* may throw, which ends the forEach and unwinds the executor; an async
\* function returns a promise for the work it started.
SideEffect ==
    /\ pc = "effects"
    /\ effIdx <= Len(EffectsFor(curAction.type))
    /\ \E throws \in (IF asyncEffects THEN {FALSE} ELSE BOOLEAN),
          calls \in BOOLEAN :
         LET eff == EffectsFor(curAction.type)[effIdx]
             lg == Append(log, Event("effect", cur, eff,
                                     Snap(storeState, rootObj, promises)))
             r == IF calls THEN ReenterByName(EffectCall(eff), cur, lg)
                  ELSE Reenter(NoAction, cur, lg)
         IN /\ subs' = r.subs
            /\ future' = r.future
            /\ dispatchQueue' = r.queue
            /\ effectWork' = IF asyncEffects
                             THEN effectWork \cup {[id |-> cur, eff |-> eff]}
                             ELSE effectWork
            /\ IF throws
               THEN /\ log' = Append(r.log, Event("ethrow", cur, eff, NoSnap))
                    /\ pc' = "idle"
                    /\ cur' = 0
                    /\ curAction' = NoAction
                    /\ UNCHANGED effIdx
               ELSE /\ log' = r.log
                    /\ effIdx' = effIdx + 1
                    /\ UNCHANGED << pc, cur, curAction >>
    /\ lastCall' = NoCall
    /\ UNCHANGED << mode, merged, rootObj, promises, storeState, isDispatching,
                    newP, leafIdx >>
    /\ UNCHANGED << asyncEffects, registryVars >>

\* Mutant of Redispatch: the closure hands on the type and its own payload
\* parameter instead of the action object.
RedispatchByType(a, payload) == [type |-> a.type, payload |-> payload]

\* await this.dispatch(action, payload) in the queued closure (part_000
\* 128-131): action is an object, so dispatch skips lines 116-123, ignores
\* its second argument and serves the object.
Redispatch(a, payload) == a

\* this._isDispatching = false; resolve(); then the flush (part_000 157-165):
\* the head of the queue is removed and called, and its dispatch call, which
\* finds _isDispatching false, starts serving it.
Finish ==
    /\ pc = "effects"
    /\ effIdx > Len(EffectsFor(curAction.type))
    /\ AwaitedWork(WorkOf(cur)) = {}
    /\ future' = [future EXCEPT ![cur] = "resolved"]
    /\ LET lg == Append(log, Event("resolve", cur, "", NoSnap))
       IN IF dispatchQueue # << >>
          THEN /\ dispatchQueue' = RestOf(dispatchQueue)
               /\ Begin(NextOf(dispatchQueue),
                        Redispatch(subs[NextOf(dispatchQueue)].action, Undef),
                        promises, lg)
          ELSE /\ log' = lg
               /\ isDispatching' = FALSE
               /\ pc' = "idle"
               /\ cur' = 0
               /\ curAction' = NoAction
               /\ UNCHANGED << dispatchQueue, promises, newP, leafIdx >>
    /\ lastCall' = NoCall
    /\ UNCHANGED << mode, merged, rootObj, storeState, effIdx, subs >>
    /\ UNCHANGED << asyncEffects, effectWork, registryVars >>

\* Async work started by a side effect finishes.  It can only do so while no
\* synchronous block of the store is running, or while the executor is
\* suspended waiting for it.
EffectWorkDone ==
    /\ \/ pc = "idle"
       \/ /\ pc = "effects"
          /\ effIdx > Len(EffectsFor(curAction.type))
          /\ AwaitedWork(WorkOf(cur)) # {}
    /\ \E w \in effectWork : effectWork' = effectWork \ {w}
    /\ lastCall' = NoCall
    /\ UNCHANGED << mode, merged, rootObj, promises, storeState, isDispatching,
                    dispatchQueue, pc, cur, newP, leafIdx, effIdx, subs, future,
                    log, curAction, asyncEffects, registryVars >>

(***************************************************************************)
(* Continuations of the async reducer (actions.ts 271-309)                 *)
(***************************************************************************)

\* return state (actions.ts 307-308): once every leaf of a call has
\* resolved, the promise the call returned takes the fate of the state it
\* was handed, which is the plain object (fulfilled) or an earlier promise.
\* The promises after the first n have been looked at.
RECURSIVE ReducerReturn(_, _)
ReducerReturn(proms, n) ==
    IF n = 0 THEN proms
    ELSE LET ps == ReducerReturn(proms, n - 1)
             p == ps[n]
         IN IF p.status = "pending" /\ p.tasks = {}
            THEN IF p.base = 0
                 THEN [ps EXCEPT ![n].status = "fulfilled"]
                 ELSE IF ps[p.base].status # "pending"
                      THEN [ps EXCEPT ![n].status = ps[p.base].status]
                      ELSE ps
            ELSE ps

\* Mutant of WriteLeaves: a call in which a leaf threw writes nothing.
WriteLeavesAllOrNothing(obj, tasks) ==
    IF \E t \in tasks : t.throws THEN obj
    ELSE [k \in DOMAIN obj |->
            IF \E t \in tasks : t.key = k
            THEN (CHOOSE t \in tasks : t.key = k).val
            ELSE obj[k]]

\* The awaited leaf results of one reducer call arrive (actions.ts 280,
\* 299, 307): state[key] = <result> for every leaf that returned, on the
\* object the call was handed, and the rejection of a leaf that threw
\* reaches Promise.all.  The continuations of an earlier call run before
\* those of a later one (the order of the job queue; calls write to
\* different objects, so the other orders reach the same objects), and
\* those of one call run together.
WriteLeaves(obj, tasks) ==
    [k \in DOMAIN obj |->
        IF \E t \in tasks : t.key = k /\ ~t.throws
        THEN (CHOOSE t \in tasks : t.key = k /\ ~t.throws).val
        ELSE obj[k]]

LeafSettle ==
    /\ pc = "idle"
    /\ \E k \in 1..Len(promises) :
         /\ promises[k].tasks # {}
         /\ \A j \in 1..(k - 1) : promises[j].tasks = {}
         /\ LET p == promises[k]
                p1 == [p EXCEPT !.tasks = {},
                                !.status = IF \E t \in p.tasks : t.throws
                                           THEN "rejected" ELSE @]
                ps == IF p.base = 0
                      THEN [promises EXCEPT ![k] = p1]
                      ELSE [promises EXCEPT ![k] = p1,
                              ![p.base].props = WriteLeaves(@, p.tasks)]
            IN /\ promises' = ReducerReturn(ps, Len(ps))
               /\ rootObj' = IF p.base = 0 THEN WriteLeaves(rootObj, p.tasks)
                             ELSE rootObj
    /\ lastCall' = NoCall
    /\ UNCHANGED << mode, merged, storeState, isDispatching, dispatchQueue, pc,
                    cur, newP, leafIdx, effIdx, subs, future, log >>
    /\ UNCHANGED << curAction, asyncEffects, effectWork, registryVars >>

Next ==
    \/ DispatchObject
    \/ DispatchByName
    \/ DispatchBadName
    \/ ReduceLeaf
    \/ Publish
    \/ SideEffect
    \/ Finish
    \/ LeafSettle

Spec == Init /\ [][Next]_vars

\* The same store with async functions as side effects and the synchronous
\* combined reducer, which has no continuations of its own to run.
AsyncInit == StoreInit /\ asyncEffects = TRUE /\ mode = "combined"

AsyncNext ==
    \/ DispatchObject
    \/ DispatchByName
    \/ DispatchBadName
    \/ ReduceLeaf
    \/ Publish
    \/ SideEffect
    \/ Finish
    \/ EffectWorkDone

AsyncSpec == AsyncInit /\ [][AsyncNext]_vars

(***************************************************************************)
(* ActionsRegistry: register, sideEffect, createStore (actions.ts 87-324)  *)
(***************************************************************************)

\* Bounds of the registry runs.
MaxRegister == 2
MaxSideEffect == 2
MaxStoreDispatch == 1

\* Everything Store.dispatch works on.
dispatchVars == << mode, merged, rootObj, promises, storeState, isDispatching,
                   dispatchQueue, pc, cur, newP, leafIdx, effIdx, subs, future,
                   log, lastCall, curAction, asyncEffects, effectWork >>

\* The names and type tags callers register with.  A tag is a JavaScript
\* string: "" is falsy, and a string has a length and characters.
RegNames == {"inc", "deep"}
RegTags == {"", "I", "INC"}
StrLen(t) == CASE t = "" -> 0 [] t = "I" -> 1 [] OTHER -> 3

\* The {selector, handler} declarations callers register.
HandlerDecls ==
    { [selector |-> "counter", fn |-> "add"],
      [selector |-> "a", fn |-> "keep"],
      [selector |-> "a.b.c", fn |-> "add"] }

\* selector.split('.') (actions.ts 230-237, 263): the paths of the nodes
\* above the leaf, outermost first.
Intermediate(sel) == IF sel = "a.b.c" THEN << "a", "a.b" >> ELSE << >>

\* The paths inside the object at path p.
Below(p) ==
    CASE p = "a" -> {"a.b", "a.b.c", "a.x"}
      [] p = "a.b" -> {"a.b.c"}
      [] OTHER -> {}

\* register(name, actionType, actionHandler) (actions.ts 106-149) on
\* registry r: the error thrown, and the registry afterwards.
RegisterResult(r, name, tag, h) ==
    IF name \in DOMAIN r.names /\ r.names[name] # ""
    THEN [error |-> "duplicate", registry |-> r]
    ELSE [error |-> "none",
          registry |->
            [r EXCEPT
               !.names = [n \in DOMAIN r.names \cup {name} |->
                            IF n = name THEN tag ELSE r.names[n]],
               !.types = @ \cup {tag},
               !.handlers = Append(@, [name |-> name, type |-> tag,
                                       selector |-> h.selector, fn |-> h.fn])]]

Register ==
    /\ Len(registry.handlers) < MaxRegister
    /\ \E name \in RegNames, tag \in RegTags, h \in HandlerDecls :
         LET res == RegisterResult(registry, name, tag, h)
         IN /\ registry' = res.registry
            /\ regCall' = [op |-> "register", name |-> name,
                           known |-> name \in DOMAIN registry.names,
                           error |-> res.error]
    /\ UNCHANGED << store, dispatchVars >>

\* The side effects callers register, all for the tag "I".
SideEffectDecls == {[actionType |-> "I", id |-> e] : e \in {"e1", "e2"}}

EffectsAt(table, type) == IF type \in DOMAIN table THEN table[type] ELSE << >>

\* registry.sideEffect(s) (actions.ts 156-162).
RegisterSideEffect ==
    /\ Len(EffectsAt(registry.effects, "I")) < MaxSideEffect
    /\ \E d \in SideEffectDecls :
         registry' = [registry EXCEPT !.effects = SideEffectAdd(@, d)]
    /\ regCall' = [NoRegCall EXCEPT !.op = "sideEffect"]
    /\ UNCHANGED << store, dispatchVars >>

\* The state objects createStore is given: none (the reducer's default {}),
\* {counter: 7}, {a: {x: 1}} and {a: {b: {c: 4}}}.
InitialStates ==
    { EmptyTree,
      [EmptyTree EXCEPT !["counter"] = 7],
      [EmptyTree EXCEPT !["a"] = Mapping, !["a.x"] = 1],
      [EmptyTree EXCEPT !["a"] = Mapping, !["a.b"] = Mapping, !["a.b.c"] = 4] }

\* The selectors with one segment and with several, in order of first
\* registration: the keys of actionTree.root and the traversers built from
\* actionTree.nested (actions.ts 227-268).
RootSelectors(decls) ==
    SelectSeq(RootKeys(decls), LAMBDA k : Len(Intermediate(k)) = 0)
NestedSelectors(decls) ==
    SelectSeq(RootKeys(decls), LAMBDA k : Len(Intermediate(k)) > 0)

\* The call of the leaf at selector sel with state s (actions.ts 281, 300,
\* 188-213): a merged leaf is a promise and cannot be called; the adapter
\* invokes the user function or hands the state back.
LeafValue(decls, sel, s, action) ==
    LET leaf == ActionTree(decls)[sel]
    IN IF leaf.kind # "handler"
       THEN [throws |-> TRUE, val |-> Undef]
       ELSE LET d == decls[leaf.reg]
                shape == AdapterShape(d.type, s, action)
            IN [throws |-> FALSE,
                val |-> IF shape.invoke
                        THEN Handler(d.fn, shape.state, shape.payload)
                        ELSE s]

\* The loop of a traverser over its path (actions.ts 288-296): a node that
\* is missing is created as {}, one that is there is entered.  A node that
\* holds a number cannot be entered: the run fails and the leaf is not
\* written.  The first n nodes of the path have been visited.
RECURSIVE MaterialiseTo(_, _, _)
MaterialiseTo(t, path, n) ==
    IF n = 0 THEN [tree |-> t, ok |-> TRUE]
    ELSE LET m == MaterialiseTo(t, path, n - 1)
             q == path[n]
         IN IF ~m.ok THEN m
            ELSE IF m.tree[q] = Undef
                 THEN [tree |-> [m.tree EXCEPT ![q] = Mapping], ok |-> TRUE]
                 ELSE IF m.tree[q] = Mapping THEN m
                      ELSE [tree |-> m.tree, ok |-> FALSE]

\* The traversers of the first n nested selectors have walked their paths.
RECURSIVE MaterialiseAll(_, _, _)
MaterialiseAll(t, nests, n) ==
    IF n = 0 THEN [tree |-> t, failed |-> {}]
    ELSE LET m == MaterialiseAll(t, nests, n - 1)
             w == MaterialiseTo(m.tree, Intermediate(nests[n]),
                                Len(Intermediate(nests[n])))
         IN [tree |-> w.tree,
             failed |-> IF w.ok THEN m.failed ELSE m.failed \cup {nests[n]}]

\* The composed reducer (actions.ts 271-309) called with state object t, and
\* all its continuations.  Synchronously: every root leaf is called with
\* state[key] as it is now, then every traverser walks its path, creating
\* nodes, and calls its leaves.  Later: each result is assigned, a root
\* result to state[key], a nested one to the node the traverser reached.  A
\* root result that is not the object that was already at state[key]
\* replaces that object and what the traversers put inside it.
ComposedReducer(decls, t, action) ==
    LET roots == RootSelectors(decls)
        nests == NestedSelectors(decls)
        rootOut == [i \in 1..Len(roots) |->
                      LeafValue(decls, roots[i], t[roots[i]], action)]
        mat == MaterialiseAll(t, nests, Len(nests))
        nestOut == [i \in 1..Len(nests) |->
                      LeafValue(decls, nests[i], mat.tree[nests[i]], action)]
        t2 == [q \in Paths |->
                 IF \E i \in 1..Len(nests) :
                        nests[i] = q /\ q \notin mat.failed /\ ~nestOut[i].throws
                 THEN nestOut[CHOOSE i \in 1..Len(nests) : nests[i] = q].val
                 ELSE mat.tree[q]]
        replaced == {roots[i] : i \in {j \in 1..Len(roots) :
                        ~rootOut[j].throws /\ rootOut[j].val # Mapping}}
    IN [tree |->
          [q \in Paths |->
             IF q \in replaced
             THEN rootOut[CHOOSE i \in 1..Len(roots) : roots[i] = q].val
             ELSE IF \E k \in replaced : q \in Below(k) THEN Undef
             ELSE t2[q]],
        rejected |->
          \/ \E i \in 1..Len(roots) : rootOut[i].throws
          \/ \E i \in 1..Len(nests) : nestOut[i].throws
          \/ mat.failed # {}]

\* new Store(...)'s loop over the name table (part_000 25-49) when it is
\* given the registry's table, whose values are strings: a tag longer than
\* one character has no reduce method, and the constructor throws.
ConstructorThrows(names) == \E n \in DOMAIN names : StrLen(names[n]) > 1

\* The named dispatchers it builds otherwise: name -> actionTypes[0].
NamedActions(names) ==
    [n \in DOMAIN names |-> IF names[n] = "" THEN "undefined" ELSE names[n]]

\* registry.createStore(initialState) (actions.ts 316-324): the reducer is
\* compiled, the store constructed around it, the registry's name table and
\* the registry's own side-effect table, and init (part_000 53-60) assigns
\* to _state what the reducer returns for initialState: a promise, which
\* settles with the state object state0 (or rejects).
CreateStore ==
    /\ store.status = "none"
    /\ \E init \in InitialStates :
         LET run == ComposedReducer(registry.handlers, init, NoAction)
         IN store' =
              IF ConstructorThrows(registry.names)
              THEN [NoStore EXCEPT !.status = "threw", !.initial = init]
              ELSE [NoStore EXCEPT
                      !.status = "ok",
                      !.handlers = registry.handlers,
                      !.actions = NamedActions(registry.names),
                      !.effectsAtCreate = registry.effects,
                      !.initial = init,
                      !.state0 = run.tree,
                      !.rejected = run.rejected,
                      !.holds = "promise"]
    /\ regCall' = [NoRegCall EXCEPT !.op = "createStore"]
    /\ UNCHANGED << registry, dispatchVars >>

\* store.dispatch({type, payload: 5}) on the created store, all of it
\* (part_000 136-166): the reducer is called with _state, a promise object
\* without properties, and writes what it computes onto that object; _state
\* becomes the next promise; the side effects found under the type in
\* _sideEffectHandlers, which is the registry's table, are invoked.
StoreServe(type) ==
    [store EXCEPT
       !.dispatched = @ + 1,
       !.last = [type |-> type,
                 written |-> ComposedReducer(store.handlers, EmptyTree,
                                             [type |-> type, payload |-> 5]).tree,
                 effects |-> EffectsAt(registry.effects, type)]]

StoreDispatch ==
    /\ store.status = "ok"
    /\ store.dispatched < MaxStoreDispatch
    /\ \E type \in {"I", "X"} : store' = StoreServe(type)
    /\ regCall' = [NoRegCall EXCEPT !.op = "dispatch"]
    /\ UNCHANGED << registry, dispatchVars >>

\* store.dispatch(name, 5) on the created store (part_000 116-122).
StoreDispatchByName ==
    /\ store.status = "ok"
    /\ store.dispatched < MaxStoreDispatch
    /\ \E name \in RegNames :
         IF name \in DOMAIN store.actions
         THEN /\ store' = StoreServe(store.actions[name])
              /\ regCall' = [NoRegCall EXCEPT !.op = "dispatchName",
                                              !.name = name]
         ELSE /\ store' = store
              /\ regCall' = [NoRegCall EXCEPT !.op = "dispatchName",
                                              !.name = name,
                                              !.error = "unknown"]
    /\ UNCHANGED << registry, dispatchVars >>

RegistryInit == Init /\ mode = "combined"

RegistryNext ==
    \/ Register
    \/ RegisterSideEffect
    \/ CreateStore
    \/ StoreDispatch
    \/ StoreDispatchByName

RegistrySpec == RegistryInit /\ [][RegistryNext]_vars

(***************************************************************************)
(* Reading the history                                                     *)
(***************************************************************************)

SubIds == 1..Len(subs)
LogIdx == 1..Len(log)

\* Where the first event e of submission id stands in the log (0: nowhere).
Pos(e, id) ==
    IF \E n \in LogIdx : log[n].e = e /\ log[n].id = id
    THEN CHOOSE n \in LogIdx :
            /\ log[n].e = e /\ log[n].id = id
            /\ \A m \in 1..(n - 1) : ~(log[m].e = e /\ log[m].id = id)
    ELSE 0

Has(e, id) == Pos(e, id) > 0

TypeOf(id) == subs[id].action.type

\* The side effects invoked for submission id, in the order of the calls.
EffectEvents(id) == SelectSeq(log, LAMBDA ev : ev.e = "effect" /\ ev.id = id)
EffectIds(id) == [n \in 1..Len(EffectEvents(id)) |-> EffectEvents(id)[n].eff]

\* The publications made for transitions (the one of init left out).
Publications == SelectSeq(log, LAMBDA ev : ev.e = "publish" /\ ev.id > 0)

HandlerThrew(id) == Has("hthrow", id)
EffectThrew(id) == Has("ethrow", id)

\* No handler and no side effect has thrown so far.
ThrowFree == \A n \in LogIdx : log[n].e \notin {"hthrow", "ethrow"}

\* The promise the reducer returned for submission id (registry mode).
PromiseOf(id) == CHOOSE k \in 1..Len(promises) : promises[k].sub = id

(***************************************************************************)
(* C1                                                                      *)
(***************************************************************************)

\* C1: every submission is applied exactly once and in submission order: the
\* k-th publication is the k-th submission's, and once no dispatch call is
\* running every submission whose own handlers and side effects returned
\* normally has been applied.
C1_AllAppliedInOrder ==
    /\ \A n \in 1..Len(Publications) : Publications[n].id = n
    /\ pc = "idle" =>
         \A i \in SubIds :
            ~HandlerThrew(i) /\ ~EffectThrew(i) => Has("publish", i)

(***************************************************************************)
(* C2                                                                      *)
(***************************************************************************)

\* The transitions whose reducer call has been made and has not finished
\* computing: a leaf is still to be called or still to deliver its result.
Computing ==
    {k \in 1..Len(promises) :
        /\ promises[k].sub > 0
        /\ promises[k].tasks # {} \/ (k = newP /\ pc = "reduce")}

\* C2: at most one transition is computing its new state at any time (stated
\* for the runs in which nothing throws).
C2_OneInFlight == ThrowFree => Cardinality(Computing) <= 1

(***************************************************************************)
(* C3                                                                      *)
(***************************************************************************)

StateComputed(id) ==
    IF mode = "registry"
    THEN promises[PromiseOf(id)].tasks = {} /\ ~(cur = id /\ pc = "reduce")
    ELSE Has("publish", id)

\* C4: a dispatch future resolves only once its own transition's new state
\* has been computed and published, and it has resolved whenever the
\* transition has been applied and no dispatch call is running (stated for
\* the runs in which nothing throws).
C4_FutureAfterApplied ==
    ThrowFree => \A i \in SubIds :
        /\ future[i] = "resolved" => Has("publish", i) /\ StateComputed(i)
        /\ pc = "idle" /\ Has("publish", i) => future[i] = "resolved"

(***************************************************************************)
(* C5                                                                      *)
(***************************************************************************)

\* C5: after a dispatch whose handler threw has unwound, the engine is Idle
\* and nothing is left waiting in the queue.
C5_EngineSurvivesThrow ==
    (/\ pc = "idle"
     /\ \E i \in SubIds : HandlerThrew(i)
     /\ \A i \in SubIds : ~EffectThrew(i))
    => ~isDispatching /\ dispatchQueue = << >>

(***************************************************************************)
(* C6                                                                      *)
(***************************************************************************)

\* C6: once the dispatch call has unwound, the future of a submission whose
\* handler threw has failed, and no other future has.
C6_ErrorReachesCaller ==
    \A i \in SubIds :
        /\ pc = "idle" /\ HandlerThrew(i) => future[i] = "rejected"
        /\ future[i] = "rejected" => HandlerThrew(i)

(***************************************************************************)
(* C7                                                                      *)
(***************************************************************************)

\* Whether s is a prefix of t.
IsPrefix(s, t) == Len(s) <= Len(t) /\ \A n \in 1..Len(s) : s[n] = t[n]

\* C7: the side effects invoked for an applied transition are those
\* registered for its tag, once each and in registration order, each after
\* the publication and handed the published snapshot, which is the state
\* object after the transition; once the dispatch call is over, all of them
\* have been invoked.
C7_EffectsOncePerTransition ==
    \A i \in SubIds :
        /\ IsPrefix(EffectIds(i), EffectsFor(TypeOf(i)))
        /\ \A n \in LogIdx :
             log[n].e = "effect" /\ log[n].id = i =>
                /\ Has("publish", i)
                /\ Pos("publish", i) < n
                /\ log[n].snap = log[Pos("publish", i)].snap
                /\ log[n].snap.ref = 0
        /\ Has("publish", i) /\ cur # i =>
             EffectIds(i) = EffectsFor(TypeOf(i))

(***************************************************************************)
(* C8                                                                      *)
(***************************************************************************)

\* What a dispatch call can change in the engine, and what it can record.
engineVars == << rootObj, promises, storeState, isDispatching, dispatchQueue,
                 pc, cur, newP, leafIdx, effIdx, subs, future, log >>

RECURSIVE ExpectedCounter(_)
ExpectedCounter(n) ==
    IF n = 0 THEN 0
    ELSE LET a == subs[Publications[n].id].action
         IN IF a.type = "INC"
            THEN ExpectedCounter(n - 1) + a.payload
            ELSE ExpectedCounter(n - 1)

\* Whether the n-th publication has handed observers a state object: it was
\* the object itself, or a promise that has since been fulfilled.
Delivered(n) ==
    LET ref == Publications[n].snap.ref
    IN IF ref = 0 THEN TRUE ELSE promises[ref].status = "fulfilled"

\* The counter of that state object.
DeliveredCounter(n) ==
    LET snap == Publications[n].snap
    IN IF snap.ref = 0 THEN snap.obj["counter"] ELSE rootObj["counter"]

\* C9: a transition is published once, and the snapshot published for it
\* holds the state after that transition and the ones before it: {counter:
\* 5} after increment 5, then {counter: 8} after increment 3 (stated for
\* the runs in which nothing throws).
C9_OneSnapshotPerTransition ==
    ThrowFree =>
    /\ \A i \in SubIds :
         /\ Len(SelectSeq(Publications, LAMBDA ev : ev.id = i)) <= 1
         /\ future[i] = "resolved" => Has("publish", i)
    /\ \A n \in 1..Len(Publications) :
         Delivered(n) => DeliveredCounter(n) = ExpectedCounter(n)

(***************************************************************************)
(* C10                                                                     *)
(***************************************************************************)

\* The counter after the first n publications if the merged leaf applies
\* "double" to the output of "increment".
RECURSIVE ExpectedMerged(_)
ExpectedMerged(n) ==
    IF n = 0 THEN 0
    ELSE LET a == subs[Publications[n].id].action
             prior == ExpectedMerged(n - 1)
         IN IF a.type = "INC"
            THEN Handler("dbl", Handler("add", prior, a.payload), a.payload)
            ELSE prior

\* C10: with "increment" and "double" registered at "counter", the merged
\* leaf can be called (no reducer call fails unless a user function threw)
\* and leaves double(increment(prior)) in the state.
C10_MergedLeafComposes ==
    merged =>
        /\ \A k \in 1..Len(promises) :
             promises[k].status = "rejected" => \E i \in SubIds : HandlerThrew(i)
        /\ \A n \in 1..Len(Publications) :
             Delivered(n) => DeliveredCounter(n) = ExpectedMerged(n)

(***************************************************************************)
(* C11                                                                     *)
(***************************************************************************)

\* The selectors the created store's reducer was compiled from.
StoreSelectors == {store.handlers[i].selector : i \in 1..Len(store.handlers)}

\* No two of those handlers share a selector.
NoMergedLeaf ==
    \A i, j \in 1..Len(store.handlers) :
        store.handlers[i].selector = store.handlers[j].selector => i = j

\* Whether state object t has a value at sel inside nested objects.
Materialised(t, sel) ==
    /\ t[sel] # Undef
    /\ \A n \in 1..Len(Intermediate(sel)) : t[Intermediate(sel)[n]] = Mapping

\* C11: for every handler registered at a multi-segment selector, after the
\* initial pass and after a transition of any type the state object has a
\* value at the full path, inside nested objects, and what the initial
\* state held outside the registered leaves is still there (stated for
\* registries without two handlers at one selector).
C11_NestedPathMaterialised ==
    (store.status = "ok" /\ NoMergedLeaf) =>
        /\ \A sel \in StoreSelectors :
             Len(Intermediate(sel)) > 0 =>
                /\ Materialised(store.state0, sel)
                /\ store.dispatched > 0 => Materialised(store.last.written, sel)
        /\ \A q \in Paths :
             (store.initial[q] # Undef /\ q \notin StoreSelectors) =>
                store.state0[q] = store.initial[q]

(***************************************************************************)
(* C12                                                                     *)
(***************************************************************************)

\* C12: after createStore(initialState) and before any dispatch the store
\* exists and its state is a state object in which every registered leaf
\* has the value initialState supplied or, if it supplied none, the value
\* the handler returns for undefined state and payload.
C12_InitialStateMaterialised ==
    (store.status # "none" /\ store.dispatched = 0) =>
        /\ store.status = "ok"
        /\ store.holds = "object"
        /\ \A i \in 1..Len(store.handlers) :
             LET d == store.handlers[i]
             IN store.state0[d.selector] =
                  IF store.initial[d.selector] # Undef
                  THEN store.initial[d.selector]
                  ELSE Handler(d.fn, Undef, Undef)

(***************************************************************************)
(* C13                                                                     *)
(***************************************************************************)

\* C13: register with a name that an earlier register call registered, with
\* whatever tag, fails as a duplicate and leaves the registry as it was.
C13_DuplicateNameRejected ==
    [][(regCall'.op = "register" /\ regCall'.known) =>
          (regCall'.error = "duplicate" /\ registry' = registry)]_vars

(***************************************************************************)
(* C14                                                                     *)
(***************************************************************************)

\* The submissions waiting in the queue right after the n-th event: made by
\* then and not served by then.
QueuedAt(n) ==
    {i \in SubIds : /\ Pos("submit", i) <= n
                    /\ ~(Has("begin", i) /\ Pos("begin", i) <= n)}

\* C14: in a run in which nothing throws, a transition that completes with
\* a non-empty queue is followed at once by the serving of the head entry,
\* and when no dispatch call is running every submission has been served
\* and the engine is Idle with an empty queue.
C14_QueueDrains ==
    ThrowFree =>
        /\ \A n \in LogIdx :
             (log[n].e = "resolve" /\ QueuedAt(n) # {}) =>
                /\ n < Len(log)
                /\ log[n + 1].e = "begin"
                /\ log[n + 1].id \in QueuedAt(n)
                /\ \A j \in QueuedAt(n) : log[n + 1].id <= j
        /\ pc = "idle" =>
             /\ ~isDispatching
             /\ dispatchQueue = << >>
             /\ \A i \in SubIds : Has("begin", i) /\ future[i] = "resolved"

\* Two submissions were waiting in the queue together, and both have been
\* served.
C14_Witness ==
    /\ ThrowFree
    /\ pc = "idle"
    /\ \E n \in LogIdx : Cardinality(QueuedAt(n)) >= 2

(***************************************************************************)
(* C15                                                                     *)
(***************************************************************************)

\* C15: when a side effect threw (and no handler did), the dispatch call
\* unwinds with the transition applied and its future resolved, the engine
\* Idle, and every queued submission served.
C15_EffectErrorSwallowed ==
    (/\ pc = "idle"
     /\ \A i \in SubIds : ~HandlerThrew(i))
    => \A i \in SubIds :
         EffectThrew(i) =>
            /\ Has("publish", i)
            /\ future[i] = "resolved"
            /\ ~isDispatching
            /\ dispatchQueue = << >>
            /\ \A j \in SubIds : Has("begin", j)

(***************************************************************************)
(* C16                                                                     *)
(***************************************************************************)

\* The type tag the handler at leaf key was registered under.
TypeAt(key) == Regs[Tree[key].reg].type

\* Every publication of the run, the one of init first.
AllPublications == SelectSeq(log, LAMBDA ev : ev.e = "publish")

\* C16: a step of a transition invokes the handler of a leaf that has a
\* value in the state object only if the transition's type is the one the
\* handler was registered under, and a published state object differs from
\* the one published before it only at leaves registered under the
\* transition's type.
C16_OtherHandlersUntouched ==
    [][/\ \A n \in (Len(log) + 1)..Len(log') :
            (log'[n].e = "handler" /\ rootObj[log'[n].eff] # Undef) =>
               TypeAt(log'[n].eff) = curAction.type
       /\ \A n \in 2..Len(AllPublications') :
            LET ev == AllPublications'[n]
                before == AllPublications'[n - 1]
            IN \A k \in KeySet :
                 (/\ Tree[k].kind = "handler"
                  /\ TypeAt(k) # subs'[ev.id].action.type
                  /\ before.snap.obj[k] # Undef)
                 => ev.snap.obj[k] = before.snap.obj[k]]_vars

(***************************************************************************)
(* C17                                                                     *)
(***************************************************************************)

\* C17: what is registered on the registry after createStore changes
\* nothing for the created store: a dispatch invokes the side effects that
\* were registered for its type when the store was created, a name resolves
\* if and only if it was registered by then, and the reducer is the one
\* compiled then.
C17_ConfigFixedAtCreate ==
    (store.status = "ok" /\ store.dispatched > 0) =>
        /\ store.last.effects = EffectsAt(store.effectsAtCreate, store.last.type)
        /\ store.last.written =
             ComposedReducer(store.handlers, EmptyTree,
                             [type |-> store.last.type, payload |-> 5]).tree
        /\ regCall.op = "dispatchName" =>
             (regCall.error = "none" <=> regCall.name \in DOMAIN store.actions)

(***************************************************************************)
(* C19                                                                     *)
(***************************************************************************)

\* How many events e the run has for submission id at leaf key.
Count(e, id, key) ==
    Cardinality({n \in LogIdx : log[n].e = e /\ log[n].id = id /\ log[n].eff = key})

\* The reducer call made for promise p is over, continuations included.
CallOver(p) == promises[p].tasks = {} /\ ~(p = newP /\ pc = "reduce")

Submitted(i) ==
    LET c == subs[i].call
    IN IF c.name = "" THEN subs[i].action
       ELSE IF Len(ActionNameToType[c.name]) > 1
            THEN [type |-> c.type, payload |-> c.payload]
            ELSE [type |-> ActionNameToType[c.name][1], payload |-> c.payload]

\* C20: when the flush takes a submission out of the queue, the action it
\* is served with has the type tag and the payload it was submitted with.
C20_QueuedActionIntact ==
    [][(cur > 0 /\ cur' > 0 /\ cur' # cur) => curAction' = Submitted(cur')]_vars

\* A submission made by a single-type name and one made by a multi-type
\* name were queued, and both have been applied.
C20_Witness ==
    \E i, j \in SubIds :
        /\ subs[i].call.name = "increment" /\ Has("publish", i)
        /\ subs[j].call.name = "multi" /\ Has("publish", j)

(***************************************************************************)
(* C18                                                                     *)
(***************************************************************************)

\* The async work the side effects of submission i have started so far.
StartedBy(i) ==
    {[id |-> i, eff |-> log[n].eff] :
        n \in {m \in LogIdx : log[m].e = "effect" /\ log[m].id = i}}

\* C18: in the step that resolves the dispatch future of a transition, all
\* the async work its side effects started is still unfinished, and in that
\* same step the engine goes Idle or, with a non-empty queue, starts the
\* next queued transition.
C18_EffectsNotAwaited ==
    [][\A i \in SubIds :
          (future[i] # "resolved" /\ future'[i] = "resolved") =>
             /\ asyncEffects => StartedBy(i) \subseteq effectWork'
             /\ IF dispatchQueue = << >>
                THEN ~isDispatching' /\ pc' = "idle"
                ELSE cur' = Head(dispatchQueue) /\ pc' = "reduce"]_vars

\* A transition's future is resolved and the transition its side effect
\* queued has begun, while the work of its side effects is unfinished.
C18_Witness ==
    \E i, j \in SubIds :
        /\ asyncEffects
        /\ future[i] = "resolved"
        /\ WorkOf(i) # {}
        /\ subs[j].parent = i
        /\ Has("begin", j)

====
